---- MODULE Spec2Model ----
(***************************************************************************)
(* Model of the two-stage inference pipeline of src/app.py:                *)
(* the module-level model load, get_ml_predictions and the route handlers  *)
(* that call it (/predict, /predict-text, /api/health).                    *)
(*                                                                         *)
(* Python strings are sequences of one-character strings, so that strip(), *)
(* replace() and lower() are computed rather than assumed.  The fitted     *)
(* artifacts (classifier, vectorizer, cluster model) are opaque to the     *)
(* program: each invocation yields one of their possible outcomes.         *)
(* One handler is one action; the risk_models directory may be changed by  *)
(* a deployment between two requests.                                      *)
(***************************************************************************)
EXTENDS Integers, Sequences, FiniteSets, TLC

VARIABLES
    pc,              \* position of the module-level code: "load_category", "load_tfidf", "serving"
    category_model,  \* global handle: "unset", "loaded" or "None"
    tfidf,           \* global handle: "unset", "loaded" or "None"
    fs,              \* the risk_models directory: per key, the two artifact files
    call,            \* the get_ml_predictions invocation made by the last request
    resp,            \* the HTTP response of the last request
    load_count,      \* per key: how many times both artifacts were read from storage
    first_lookup,    \* per key: what its first lookup found ("none" before it)
    ncalls,          \* number of get_ml_predictions invocations so far
    unique_email,    \* schema of the users table: TRUE when email carries a UNIQUE index
    users,           \* the committed rows of the users table, in insertion order
    next_id,         \* the AUTO_INCREMENT counter of the users table
    worker,          \* per server thread: the /api/signup request it is handling
    ulast,           \* the last answer given by a users handler
    nreq             \* number of requests received by the users handlers

mlvars == <<pc, category_model, tfidf, fs, call, resp, load_count, first_lookup, ncalls>>
uvars == <<unique_email, users, next_id, worker, ulast, nreq>>
vars == <<pc, category_model, tfidf, fs, call, resp, load_count, first_lookup, ncalls,
          unique_email, users, next_id, worker, ulast, nreq>>

----------------------------------------------------------------------------
(* Bounds *)

MaxLen == 2        \* longest request text
MaxCalls == 2      \* get_ml_predictions invocations per behaviour
MaxCluster == 3    \* largest cluster id a cluster model produces
NumWorkers == 2    \* server threads handling /api/signup at the same time
MaxRequests == 4   \* requests to the users handlers per behaviour

----------------------------------------------------------------------------
(* Strings *)

Chars == {" ", "a"}

Strings == UNION {[1..n -> Chars] : n \in 0..MaxLen}

Whitespace == {" ", "\t", "\n", "\r"}

RECURSIVE lstrip(_)
lstrip(s) ==
    IF s # <<>> /\ Head(s) \in Whitespace THEN lstrip(Tail(s)) ELSE s

RECURSIVE rstrip(_)
rstrip(s) ==
    IF s # <<>> /\ s[Len(s)] \in Whitespace
    THEN rstrip(SubSeq(s, 1, Len(s) - 1))
    ELSE s

strip(s) == rstrip(lstrip(s))

replace(s, old, new) == [i \in 1..Len(s) |-> IF s[i] = old THEN new ELSE s[i]]

UpperCase == <<"A","B","C","D","E","F","G","H","I","J","K","L","M",
               "N","O","P","Q","R","S","T","U","V","W","X","Y","Z">>
LowerCase == <<"a","b","c","d","e","f","g","h","i","j","k","l","m",
               "n","o","p","q","r","s","t","u","v","w","x","y","z">>

lower_char(c) ==
    IF \E i \in 1..Len(UpperCase) : UpperCase[i] = c
    THEN LowerCase[CHOOSE i \in 1..Len(UpperCase) : UpperCase[i] = c]
    ELSE c

lower(s) == [i \in 1..Len(s) |-> lower_char(s[i])]

Unknown == <<"U","n","k","n","o","w","n">>
ModelNotLoaded == <<"M","o","d","e","l"," ","n","o","t"," ","l","o","a","d","e","d">>
Low == <<"L","o","w">>
Moderate == <<"M","o","d","e","r","a","t","e">>
High == <<"H","i","g","h">>

----------------------------------------------------------------------------
(* JSON values a request can carry *)

JNull == [kind |-> "null", s |-> <<>>, n |-> 0]
JAbsent == [kind |-> "absent", s |-> <<>>, n |-> 0]
JStr(s) == [kind |-> "str", s |-> s, n |-> 0]
JInt(n) == [kind |-> "int", s |-> <<>>, n |-> n]
JList(s) == [kind |-> "list", s |-> s, n |-> 0]

JsonValues ==
    {JNull, JInt(0), JInt(7), JList(<<>>)} \cup {JStr(s) : s \in Strings}

\* Python truth value of an argument
truthy(v) ==
    CASE v.kind = "null" -> FALSE
      [] v.kind = "absent" -> FALSE
      [] v.kind = "str" -> v.s # <<>>
      [] v.kind = "list" -> v.s # <<>>
      [] v.kind = "int" -> v.n # 0

\* dict.get(key) and dict.get(key, default)
dict_get(v) == IF v.kind = "absent" THEN JNull ELSE v
dict_get_default(v, default) == IF v.kind = "absent" THEN default ELSE v

\* Python `a or b`
py_or(a, b) == IF truthy(a) THEN a ELSE b

----------------------------------------------------------------------------
(* Artifacts *)

Fire == <<"F","i","r","e">>
FireLower == <<"f","i","r","e">>
NoiseComplaint == <<"N","o","i","s","e"," ","C","o","m","p","l","a","i","n","t">>

\* the classes the fitted classifier can return
Labels == {Fire, FireLower, NoiseComplaint}

\* safe_cat = category.replace(" ", "_").lower()
safe_cat(category) == lower(replace(category, " ", "_"))

\* the key of each label, computed once
key_of == [l \in Labels |-> safe_cat(l)]

Keys == {key_of[l] : l \in Labels}

ClusterIds == 0..MaxCluster

EmptyMap == [i \in {} |-> Unknown]
RiskMap == (0 :> Low) @@ (1 :> Moderate) @@ (2 :> High)

\* a {key}_kmeans.pkl file: absent, present but failing to load, or loadable
KmeansFiles == {"missing", "corrupt", "ok"}

\* a {key}_risk_map.pkl file: absent, present but failing to load, or a dict
MapFiles ==
    {[state |-> "missing", dict |-> EmptyMap], [state |-> "corrupt", dict |-> EmptyMap]}
    \cup {[state |-> "ok", dict |-> RiskMap]}

Directories == [Keys -> [kmeans : KmeansFiles, map : MapFiles]]

\* category_model.predict([text])[0]: a label, or an exception
ClassifierOutcomes(model) ==
    IF model # "loaded"
    THEN {[raises |-> TRUE, label |-> <<>>]}
    ELSE {[raises |-> TRUE, label |-> <<>>]} \cup {[raises |-> FALSE, label |-> l] : l \in Labels}

\* tfidf.transform([text]): TRUE when it returns a vector, FALSE when it raises
VectorizerOutcomes(vectorizer) ==
    IF vectorizer # "loaded" THEN {FALSE} ELSE BOOLEAN

\* int(risk_model.predict(text_vec)[0]): a cluster id, or an exception
NoCluster == -1
ClusterOutcomes == ClusterIds \cup {NoCluster}

----------------------------------------------------------------------------
(* get_ml_predictions *)

NoLabel == <<>>

Returned(category, risk, has_risk_level) ==
    [kind |-> "return", category |-> category, risk |-> risk, risk_level |-> has_risk_level]
Raised == [kind |-> "raise", category |-> <<>>, risk |-> <<>>, risk_level |-> FALSE]
NoRet == [kind |-> "none", category |-> <<>>, risk |-> <<>>, risk_level |-> FALSE]

Idle ==
    [active |-> FALSE, text |-> JNull, category |-> NoLabel, cluster |-> NoCluster,
     trace |-> <<>>, ret |-> NoRet, retried |-> FALSE]

\* the same test without the strip() half
blank_check_nostrip(text) ==
    IF ~truthy(text) THEN "blank"
    ELSE IF text.kind # "str" THEN "raise"
    ELSE "nonblank"

\* line 49: `not text or not text.strip()`
blank_check(text) ==
    IF ~truthy(text) THEN "blank"
    ELSE IF text.kind # "str" THEN "raise"
    ELSE IF ~truthy(JStr(strip(text.s))) THEN "blank"
    ELSE "nonblank"

\* line 50
blank_result == Returned(Unknown, Unknown, FALSE)

\* the guard left out
models_missing_unchecked == FALSE

\* line 53: `category_model is None or tfidf is None`
models_missing == category_model = "None" \/ tfidf = "None"

\* line 54
not_loaded_result == Returned(ModelNotLoaded, ModelNotLoaded, FALSE)

\* an existence check that remembers a key found absent
kmeans_exists_remembered(key) ==
    first_lookup[key] # "absent" /\ fs[key].kmeans # "missing"

\* line 64: os.path.exists(kmeans_path)
kmeans_exists(key) == fs[key].kmeans # "missing"

\* the category copied into both members
missing_result_copied(category) == Returned(category, category, FALSE)

\* line 65
missing_result(category) == Returned(category, Unknown, FALSE)

\* a lookup with another default
risk_lookup_low(risk_mapping, cluster) ==
    IF cluster \in DOMAIN risk_mapping THEN risk_mapping[cluster] ELSE Low

\* line 72: risk_mapping.get(cluster, "Unknown")
risk_lookup(risk_mapping, cluster) ==
    IF cluster \in DOMAIN risk_mapping THEN risk_mapping[cluster] ELSE Unknown

\* line 74
risk_result(category, risk_label) == Returned(category, risk_label, TRUE)

\* lines 76-78
except_result == Returned(Unknown, Unknown, FALSE)

\* both artifacts of the key are files of the directory
pair_exists(key) == fs[key].kmeans # "missing" /\ fs[key].map.state # "missing"

\* bookkeeping of one invocation; the program's own state is left alone
Finish(text, category, cluster, trace, loaded, ret) ==
    /\ call' = [active |-> TRUE, text |-> text, category |-> category,
                cluster |-> cluster, trace |-> trace, ret |-> ret,
                retried |-> (category # NoLabel /\ first_lookup[key_of[category]] = "absent")]
    /\ load_count' =
          IF loaded
          THEN [load_count EXCEPT ![key_of[category]] = @ + 1]
          ELSE load_count
    /\ first_lookup' =
          IF category # NoLabel /\ first_lookup[key_of[category]] = "none"
          THEN [first_lookup EXCEPT ![key_of[category]] =
                   IF pair_exists(key_of[category]) THEN "present" ELSE "absent"]
          ELSE first_lookup
    /\ ncalls' = ncalls + 1

get_ml_predictions(text) ==
    IF blank_check(text) = "blank"
    THEN Finish(text, NoLabel, NoCluster, <<>>, FALSE, blank_result)
    ELSE IF blank_check(text) = "raise"
    THEN Finish(text, NoLabel, NoCluster, <<>>, FALSE, Raised)
    ELSE IF models_missing
    THEN Finish(text, NoLabel, NoCluster, <<>>, FALSE, not_loaded_result)
    ELSE \E c \in ClassifierOutcomes(category_model) :
        IF c.raises
        THEN Finish(text, NoLabel, NoCluster, <<"classifier">>, FALSE, except_result)
        ELSE
          LET category == c.label
              key == key_of[category]
          IN
          IF ~kmeans_exists(key)
          THEN Finish(text, category, NoCluster, <<"classifier", "exists">>, FALSE,
                      missing_result(category))
          ELSE IF fs[key].kmeans # "ok"
          THEN Finish(text, category, NoCluster,
                      <<"classifier", "exists", "load_kmeans">>, FALSE, except_result)
          ELSE IF fs[key].map.state # "ok"
          THEN Finish(text, category, NoCluster,
                      <<"classifier", "exists", "load_kmeans", "load_map">>, FALSE,
                      except_result)
          ELSE \E v \in VectorizerOutcomes(tfidf) :
            IF ~v
            THEN Finish(text, category, NoCluster,
                        <<"classifier", "exists", "load_kmeans", "load_map", "vectorizer">>,
                        TRUE, except_result)
            ELSE \E cluster \in ClusterOutcomes :
              IF cluster = NoCluster
              THEN Finish(text, category, NoCluster,
                          <<"classifier", "exists", "load_kmeans", "load_map",
                            "vectorizer", "cluster">>,
                          TRUE, except_result)
              ELSE Finish(text, category, cluster,
                          <<"classifier", "exists", "load_kmeans", "load_map",
                            "vectorizer", "cluster", "lookup">>,
                          TRUE,
                          risk_result(category, risk_lookup(fs[key].map.dict, cluster)))

----------------------------------------------------------------------------
(* Module-level model load, lines 15-22 *)

\* an except branch that resets only the vectorizer
load_failed_partial ==
    /\ category_model' = category_model
    /\ tfidf' = "None"

\* lines 19-22: the except branch
load_failed ==
    /\ category_model' = "None"
    /\ tfidf' = "None"

\* line 16
LoadCategoryModel ==
    /\ pc = "load_category"
    /\ \/ /\ category_model' = "loaded"
          /\ tfidf' = tfidf
          /\ pc' = "load_tfidf"
       \/ /\ load_failed
          /\ pc' = "serving"
    /\ UNCHANGED <<fs, call, resp, load_count, first_lookup, ncalls>>
    /\ UNCHANGED uvars

\* line 17
LoadTfidf ==
    /\ pc = "load_tfidf"
    /\ \/ /\ tfidf' = "loaded"
          /\ category_model' = category_model
       \/ load_failed
    /\ pc' = "serving"
    /\ UNCHANGED <<fs, call, resp, load_count, first_lookup, ncalls>>
    /\ UNCHANGED uvars

----------------------------------------------------------------------------
(* Route handlers *)

NoResp == [status |-> 0, error |-> "", ml_models |-> "", body |-> NoRet]

Response(status, error, body) ==
    [status |-> status, error |-> error, ml_models |-> "", body |-> body]

\* jsonify(predictions), or the 500 answer to an exception leaving the view
Answer(ret) ==
    IF ret.kind = "raise"
    THEN Response(500, "Internal Server Error", NoRet)
    ELSE Response(200, "", ret)

NoBody == [json |-> FALSE, description |-> JAbsent, text |-> JAbsent, content |-> JAbsent]

FieldValues == {JAbsent} \cup JsonValues

\* request bodies: no JSON, or an object (with possibly other members)
Bodies ==
    {NoBody}
    \cup {[json |-> TRUE, description |-> d, text |-> JAbsent, content |-> JAbsent] :
            d \in FieldValues}
    \cup {[json |-> TRUE, description |-> d, text |-> t, content |-> c] :
            d \in {JAbsent, JStr(<<>>)},
            t \in {JInt(0), JStr(<<"a">>)},
            c \in {JAbsent, JStr(<<" ">>)}}

TextBodies ==
    {[json |-> TRUE, description |-> JAbsent, text |-> t, content |-> JAbsent] :
        t \in FieldValues}

\* lines 215-224
predict ==
    /\ pc = "serving"
    /\ ncalls < MaxCalls
    /\ \E data \in Bodies :
         IF ~data.json
         THEN /\ resp' = Response(400, "No JSON received", NoRet)
              /\ call' = Idle
              /\ UNCHANGED <<load_count, first_lookup, ncalls>>
         ELSE
           LET text == py_or(py_or(dict_get(data.description), dict_get(data.text)),
                             dict_get(data.content))
           IN
           IF ~truthy(text)
           THEN /\ resp' = Response(400, "description is required", NoRet)
                /\ call' = Idle
                /\ UNCHANGED <<load_count, first_lookup, ncalls>>
           ELSE /\ get_ml_predictions(text)
                /\ resp' = Answer(call'.ret)
    /\ UNCHANGED <<pc, category_model, tfidf, fs>>
    /\ UNCHANGED uvars

\* lines 226-231
predict_text ==
    /\ pc = "serving"
    /\ ncalls < MaxCalls
    /\ \E data \in TextBodies :
         /\ get_ml_predictions(dict_get_default(data.text, JStr(<<>>)))
         /\ resp' = Answer(call'.ret)
    /\ UNCHANGED <<pc, category_model, tfidf, fs>>
    /\ UNCHANGED uvars

\* lines 102-110
health_check ==
    /\ pc = "serving"
    /\ resp' = [status |-> 200, error |-> "",
                ml_models |-> IF category_model = "loaded" THEN "loaded" ELSE "not loaded",
                body |-> NoRet]
    /\ call' = Idle
    /\ UNCHANGED <<pc, category_model, tfidf, fs, load_count, first_lookup, ncalls>>
    /\ UNCHANGED uvars

----------------------------------------------------------------------------
(* The directory of risk artifacts is written by a training process *)

Deploy ==
    /\ pc = "serving"
    /\ \E key \in Keys :
         \/ \E k \in KmeansFiles :
              /\ k # fs[key].kmeans
              /\ fs' = [fs EXCEPT ![key].kmeans = k]
         \/ \E m \in MapFiles :
              /\ m # fs[key].map
              /\ fs' = [fs EXCEPT ![key].map = m]
    /\ call' = Idle
    /\ resp' = NoResp
    /\ UNCHANGED <<pc, category_model, tfidf, load_count, first_lookup, ncalls>>
    /\ UNCHANGED uvars

----------------------------------------------------------------------------
(* The users table and its handlers: /api/signup, /api/approve-user,      *)
(* /api/reject-user.  Every request opens its own connection, hence its    *)
(* own transaction; a row inserted by a transaction is seen by the SELECT  *)
(* of another one only after the commit.  The schema of the table is not   *)
(* part of the program: unique_email covers both possibilities.            *)

Workers == 1..NumWorkers

Emails == {JStr(<<"a">>), JStr(<<"a", "a">>)}

NoSignupBody ==
    [json |-> FALSE, first_name |-> JAbsent, full_name |-> JAbsent, name |-> JAbsent,
     email |-> JAbsent, password |-> JAbsent]

\* request bodies of /api/signup
SignupBodies ==
    {NoSignupBody} \cup
    {[json |-> TRUE, first_name |-> n[1], full_name |-> n[2], name |-> n[3],
      email |-> e, password |-> p] :
        n \in {<<JAbsent, JAbsent, JAbsent>>, <<JStr(<<"a">>), JAbsent, JAbsent>>,
               <<JStr(<<>>), JAbsent, JStr(<<"a">>)>>},
        e \in {JAbsent} \cup Emails,
        p \in {JAbsent, JStr(<<"a">>)}}

\* request bodies of /api/approve-user and /api/reject-user
AdminBodies ==
    {[json |-> FALSE, userId |-> JAbsent], [json |-> TRUE, userId |-> JAbsent]}
    \cup {[json |-> TRUE, userId |-> JInt(i)] : i \in 1..next_id}

IdleWorker ==
    [pc |-> "idle", first_name |-> JNull, email |-> JNull, password |-> JNull, row_id |-> 0]

NoAnswer ==
    [seq |-> 0, op |-> "", status |-> 0, email |-> JNull, user_id |-> JNull,
     registered |-> FALSE, new_id |-> 0]

Answered(op, status, email, user_id, registered, new_id) ==
    [seq |-> nreq + 1, op |-> op, status |-> status, email |-> email, user_id |-> user_id,
     registered |-> registered, new_id |-> new_id]

\* the answer of a request a worker took up earlier (already counted in nreq)
Finished(op, status, email, registered, new_id) ==
    [seq |-> nreq, op |-> op, status |-> status, email |-> email, user_id |-> JNull,
     registered |-> registered, new_id |-> new_id]

\* line 277: SELECT id FROM users WHERE email = %s, then fetchone()
email_registered(email) == \E i \in 1..Len(users) : users[i].email = email

\* lines 282-285: the row of the INSERT
new_user(id, first_name, email, password) ==
    [id |-> id, first_name |-> first_name, email |-> email, password |-> password,
     role |-> "citizen", status |-> "pending"]

\* another transaction holds an uncommitted row with this email
email_in_flight(w, email) ==
    \E v \in Workers \ {w} : worker[v].pc = "commit" /\ worker[v].email = email

\* lines 263-270: read the body and validate it
signup_begin(w) ==
    /\ worker[w].pc = "idle"
    /\ nreq < MaxRequests
    /\ nreq' = nreq + 1
    /\ \E data \in SignupBodies :
         IF ~data.json
         THEN /\ ulast' = Answered("signup", 500, JNull, JNull, FALSE, 0)
              /\ worker' = worker
         ELSE
           LET first_name == py_or(py_or(dict_get(data.first_name), dict_get(data.full_name)),
                                   dict_get(data.name))
               email == dict_get(data.email)
               password == dict_get(data.password)
           IN
           IF ~truthy(first_name) \/ ~truthy(email) \/ ~truthy(password)
           THEN /\ ulast' = Answered("signup", 400, email, JNull, FALSE, 0)
                /\ worker' = worker
           ELSE /\ worker' = [worker EXCEPT ![w] =
                                [pc |-> "select", first_name |-> first_name,
                                 email |-> email, password |-> password, row_id |-> 0]]
                /\ ulast' = ulast
    /\ UNCHANGED <<unique_email, users, next_id>>
    /\ UNCHANGED mlvars

\* lines 273-279: connect, look the email up
signup_select(w) ==
    /\ worker[w].pc = "select"
    /\ \/ /\ ulast' = Finished("signup", 500, worker[w].email, FALSE, 0)
          /\ worker' = [worker EXCEPT ![w] = IdleWorker]
       \/ IF email_registered(worker[w].email)
          THEN /\ ulast' = Finished("signup", 400, worker[w].email, TRUE, 0)
               /\ worker' = [worker EXCEPT ![w] = IdleWorker]
          ELSE /\ worker' = [worker EXCEPT ![w].pc = "insert"]
               /\ ulast' = ulast
    /\ UNCHANGED <<unique_email, users, next_id, nreq>>
    /\ UNCHANGED mlvars

\* lines 282-285: INSERT; with a UNIQUE index it waits for a transaction that
\* holds the same email and fails on a committed duplicate (lines 299-301)
signup_insert(w) ==
    /\ worker[w].pc = "insert"
    /\ ~(unique_email /\ email_in_flight(w, worker[w].email))
    /\ IF unique_email /\ email_registered(worker[w].email)
       THEN /\ ulast' = Finished("signup", 500, worker[w].email, FALSE, 0)
            /\ worker' = [worker EXCEPT ![w] = IdleWorker]
            /\ next_id' = next_id
       ELSE /\ worker' = [worker EXCEPT ![w].pc = "commit", ![w].row_id = next_id]
            /\ next_id' = next_id + 1
            /\ ulast' = ulast
    /\ UNCHANGED <<unique_email, users, nreq>>
    /\ UNCHANGED mlvars

\* lines 287-297: commit and answer
signup_commit(w) ==
    /\ worker[w].pc = "commit"
    /\ users' = Append(users, new_user(worker[w].row_id, worker[w].first_name,
                                       worker[w].email, worker[w].password))
    /\ ulast' = Finished("signup", 200, worker[w].email, FALSE, worker[w].row_id)
    /\ worker' = [worker EXCEPT ![w] = IdleWorker]
    /\ UNCHANGED <<unique_email, next_id, nreq>>
    /\ UNCHANGED mlvars

signup ==
    \E w \in Workers :
        \/ signup_begin(w)
        \/ signup_select(w)
        \/ signup_insert(w)
        \/ signup_commit(w)

\* a WHERE clause that looks at the id only
id_match(row, user_id) ==
    user_id.kind = "int" /\ row.id = user_id.n

\* lines 350 and 383: WHERE id = %s AND status = 'pending'
pending_match(row, user_id) ==
    user_id.kind = "int" /\ row.id = user_id.n /\ row.status = "pending"

\* lines 347-351 and 380-384: UPDATE users SET status = ...
update_status(user_id, status) ==
    [i \in 1..Len(users) |->
        IF pending_match(users[i], user_id)
        THEN [users[i] EXCEPT !.status = status]
        ELSE users[i]]

\* cursor.rowcount
rowcount(user_id) ==
    Cardinality({i \in 1..Len(users) : pending_match(users[i], user_id)})

\* the common shape of lines 339-365 and 372-398
decide_user(op, status) ==
    /\ nreq' = nreq + 1
    /\ \E data \in AdminBodies :
         IF ~data.json
         THEN /\ ulast' = Answered(op, 500, JNull, JNull, FALSE, 0)
              /\ users' = users
         ELSE
           LET user_id == dict_get(data.userId) IN
           \/ /\ ulast' = Answered(op, 500, JNull, user_id, FALSE, 0)
              /\ users' = users
           \/ /\ users' = update_status(user_id, status)
              /\ ulast' = Answered(op, IF rowcount(user_id) > 0 THEN 200 ELSE 404,
                                   JNull, user_id, FALSE, 0)
    /\ UNCHANGED <<unique_email, next_id, worker>>
    /\ UNCHANGED mlvars

\* lines 338-365
approve_user ==
    /\ nreq < MaxRequests
    /\ decide_user("approve_user", "approve")

\* lines 371-398
reject_user ==
    /\ nreq < MaxRequests
    /\ decide_user("reject_user", "reject")

\* the users handlers have not been called
UsersUntouched ==
    /\ users = <<>>
    /\ next_id = 1
    /\ worker = [w \in Workers |-> IdleWorker]
    /\ ulast = NoAnswer
    /\ nreq = 0

----------------------------------------------------------------------------

Init ==
    /\ pc = "load_category"
    /\ category_model = "unset"
    /\ tfidf = "unset"
    /\ fs \in Directories
    /\ call = Idle
    /\ resp = NoResp
    /\ load_count = [k \in Keys |-> 0]
    /\ first_lookup = [k \in Keys |-> "none"]
    /\ ncalls = 0
    /\ unique_email = FALSE
    /\ UsersUntouched

Next ==
    \/ LoadCategoryModel
    \/ LoadTfidf
    \/ predict
    \/ predict_text
    \/ health_check
    \/ Deploy

Spec == Init /\ [][Next]_vars

\* the users handlers of a process that is serving
InitUsers ==
    /\ pc = "serving"
    /\ category_model = "loaded"
    /\ tfidf = "loaded"
    /\ fs = [k \in Keys |-> [kmeans |-> "missing",
                              map |-> [state |-> "missing", dict |-> EmptyMap]]]
    /\ call = Idle
    /\ resp = NoResp
    /\ load_count = [k \in Keys |-> 0]
    /\ first_lookup = [k \in Keys |-> "none"]
    /\ ncalls = 0
    /\ unique_email \in BOOLEAN
    /\ UsersUntouched

NextUsers ==
    \/ signup
    \/ approve_user
    \/ reject_user

SpecUsers == InitUsers /\ [][NextUsers]_vars

----------------------------------------------------------------------------
(* Vocabulary of the properties, stated on the observed invocation *)

IsString(v) == v.kind = "str"
OnlyWhitespace(v) == \A i \in 1..Len(v.s) : v.s[i] \in Whitespace
BlankText(v) == v.kind = "null" \/ (IsString(v) /\ OnlyWhitespace(v))
NonBlankString(v) == IsString(v) /\ ~OnlyWhitespace(v)

Ready == category_model = "loaded" /\ tfidf = "loaded"
Degraded == category_model = "None" /\ tfidf = "None"

\* the invocation got a label from the classifier
Classified == call.active /\ call.category # NoLabel
CallKey == key_of[call.category]
KmeansMissing == fs[CallKey].kmeans = "missing"
MapMissing == fs[CallKey].map.state = "missing"
PairLoadable == fs[CallKey].kmeans = "ok" /\ fs[CallKey].map.state = "ok"
Invoked(step) == \E i \in 1..Len(call.trace) : call.trace[i] = step
LastStep == IF call.trace = <<>> THEN "" ELSE call.trace[Len(call.trace)]
MapEntry ==
    IF call.cluster \in DOMAIN fs[CallKey].map.dict
    THEN fs[CallKey].map.dict[call.cluster]
    ELSE Unknown

Returns(category, risk) ==
    /\ call.ret.kind = "return"
    /\ call.ret.category = category
    /\ call.ret.risk = risk

----------------------------------------------------------------------------
(* Properties *)

\* C1: a call with an absent, empty or whitespace-only text returns
\* Unknown/Unknown in every load state, and invokes no model, no existence
\* check and no load.
C1_BlankIsUnknown ==
    (call.active /\ BlankText(call.text)) =>
        /\ Returns(Unknown, Unknown)
        /\ ~call.ret.risk_level
        /\ call.trace = <<>>

C1_Witness ==
    /\ call.active
    /\ call.text = JStr(<<" ", " ">>)
    /\ Degraded
    /\ Returns(Unknown, Unknown)

\* C2 as stated: in Degraded mode every call, whatever its text, returns
\* "Model not loaded" twice.
C2_DegradedAnyText ==
    (call.active /\ Degraded) => Returns(ModelNotLoaded, ModelNotLoaded)

\* C2 amended: in Degraded mode every call with a non-blank string returns
\* "Model not loaded" twice, and the classifier is not invoked.
C2_DegradedNonBlank ==
    (call.active /\ Degraded /\ NonBlankString(call.text)) =>
        /\ Returns(ModelNotLoaded, ModelNotLoaded)
        /\ call.trace = <<>>

C2_Witness ==
    /\ call.active
    /\ Degraded
    /\ call.text = JStr(<<" ", "a">>)
    /\ Returns(ModelNotLoaded, ModelNotLoaded)

\* C3: get_ml_predictions never raises; every call returns a result with a
\* category and a risk.
C3_NeverRaises ==
    call.active => call.ret.kind = "return"

\* C4: with models loaded and a non-blank text, when either artifact of the
\* key is missing the call returns the classifier's label with risk Unknown.
C4_EitherMissing ==
    (Classified /\ Ready /\ NonBlankString(call.text) /\ (KmeansMissing \/ MapMissing)) =>
        Returns(call.category, Unknown)

\* C5: when both artifacts exist and loading or executing them fails, the
\* call returns what it returns for missing artifacts: the classifier's label
\* with risk Unknown.
C5_CorruptLikeMissing ==
    (/\ Classified /\ Ready /\ NonBlankString(call.text)
     /\ ~KmeansMissing /\ ~MapMissing
     /\ LastStep \in {"load_kmeans", "load_map", "cluster"}) =>
        Returns(call.category, Unknown)

\* C6: the artifacts of a key are read from storage at most once per process.
C6_LoadedOnce ==
    \A k \in Keys : load_count[k] <= 1

\* C7: with models loaded and a non-blank text, when the pair of the key of
\* the predicted category is incomplete the returned risk is Unknown.
C7_NoPairUnknownRisk ==
    (Classified /\ Ready /\ NonBlankString(call.text) /\ (KmeansMissing \/ MapMissing)) =>
        /\ call.ret.kind = "return"
        /\ call.ret.risk = Unknown

C7_Witness ==
    /\ Classified /\ Ready
    /\ call.text = JStr(<<"a", " ">>)
    /\ call.category = NoiseComplaint
    /\ CallKey = <<"n","o","i","s","e","_","c","o","m","p","l","a","i","n","t">>
    /\ KmeansMissing
    /\ ~MapMissing
    /\ Returns(NoiseComplaint, Unknown)

\* C8: with models loaded, a non-blank text, a loadable pair and a cluster id
\* produced by the cluster model, the call returns the classifier's label and
\* the map's entry for that id, or Unknown when the id is not a key of the
\* map; the lookup does not fail.
C8_RiskFromMap ==
    (/\ Classified /\ Ready /\ NonBlankString(call.text)
     /\ PairLoadable /\ call.cluster # NoCluster) =>
        /\ Returns(call.category, MapEntry)
        /\ LastStep = "lookup"

C8_Witness ==
    /\ Classified /\ Ready /\ PairLoadable
    /\ call.cluster \in ClusterIds
    /\ call.cluster \notin DOMAIN fs[CallKey].map.dict
    /\ Returns(call.category, Unknown)
    /\ call.ret.risk_level

\* C9 as stated: a key whose artifacts were absent at its first lookup keeps
\* risk Unknown in every later call.
C9_AbsentNotRetried ==
    (call.active /\ call.retried) => call.ret.risk = Unknown

\* C9 amended: a key whose artifacts were absent at its first lookup is
\* looked up again on every later call: the risk stays Unknown while the pair
\* is incomplete, an existing kmeans artifact is loaded again, and a produced
\* cluster id is answered from the map.
C9_AbsentRetried ==
    (call.active /\ call.retried) =>
        /\ (KmeansMissing \/ MapMissing) => call.ret.risk = Unknown
        /\ ~KmeansMissing => Invoked("load_kmeans")
        /\ call.cluster # NoCluster => Returns(call.category, MapEntry)

C9_Witness ==
    /\ call.active /\ call.retried
    /\ PairLoadable
    /\ call.cluster = 2
    /\ Returns(call.category, High)

\* C10: once the module-level load is over the handles are both loaded
\* (Ready) or both None (Degraded), and no request changes them.
C10_ModeFixed ==
    /\ [](pc = "serving" => (Ready \/ Degraded))
    /\ [][pc = "serving" => (category_model' = category_model /\ tfidf' = tfidf)]_vars

C10_Witness ==
    /\ pc = "serving"
    /\ Degraded
    /\ call.active
    /\ ncalls = MaxCalls
    /\ resp.status = 200

----------------------------------------------------------------------------
(* Properties of the users handlers, checked under SpecUsers *)

\* C11: no two rows of the users table have the same email, and a signup
\* whose lookup found the email registered answers 400 and inserts nothing.
C11_UniqueEmails ==
    /\ \A i, j \in 1..Len(users) : i # j => users[i].email # users[j].email
    /\ (ulast.op = "signup" /\ ulast.registered) =>
           (ulast.status = 400 /\ ulast.new_id = 0)

Decided(row) == row.status \in {"approve", "reject"}

\* the step answers an approve_user or reject_user request naming row i
AdminAnswerOn(i) ==
    /\ ulast'.seq = nreq + 1
    /\ ulast'.op \in {"approve_user", "reject_user"}
    /\ ulast'.user_id.kind = "int"
    /\ ulast'.user_id.n = users[i].id

\* one step of the status machine; codes are the answers allowed to a request
\* that names a user already decided
StatusStep(codes) ==
    /\ Len(users') >= Len(users)
    /\ \A i \in 1..Len(users') :
         i > Len(users) => users'[i].status = "pending"
    /\ \A i \in 1..Len(users) :
         users'[i] # users[i] =>
            /\ users[i].status = "pending"
            /\ AdminAnswerOn(i)
            /\ ulast'.status = 200
            /\ users'[i] = [users[i] EXCEPT !.status =
                               IF ulast'.op = "approve_user" THEN "approve" ELSE "reject"]
    /\ \A i \in 1..Len(users) :
         (Decided(users[i]) /\ AdminAnswerOn(i)) =>
            /\ ulast'.status \in codes
            /\ users' = users

\* C12 as stated: signup creates a user as pending; approve_user and
\* reject_user change a status only from pending, to approve and reject; a
\* request naming a decided user answers 404 and changes no row.
C12_StatusOneWay == [][StatusStep({404})]_vars

\* C12 amended: the same machine, where a request naming a decided user
\* answers 404, or 500 when the body is not JSON or the database fails, and
\* changes no row in either case.
C12_StatusOneWayOr500 == [][StatusStep({404, 500})]_vars

C12_Witness ==
    /\ ulast.op = "reject_user"
    /\ ulast.status = 404
    /\ ulast.seq = nreq
    /\ \E i \in 1..Len(users) :
         /\ ulast.user_id = JInt(users[i].id)
         /\ users[i].status = "approve"

====
